---- MODULE Spec2Model ----
(***************************************************************************)
(* A model of the namedreturns analyzer (analyzer/analyzer.go).            *)
(*                                                                         *)
(* The analyzer receives one type-checked compilation unit and a flag.     *)
(* inspector.Preorder hands every FuncDecl and FuncLit of the unit to the  *)
(* callback of run, which classifies the declared results, resolves the    *)
(* defer exemption, and then walks the body twice with ast.Inspect: once   *)
(* for return statements and once for shadowing constructs.                *)
(*                                                                         *)
(* The syntax tree keeps the node kinds the analyzer tells apart           *)
(* (ReturnStmt, AssignStmt, ValueSpec, RangeStmt, ForStmt, DeferStmt,      *)
(* FuncLit, FuncDecl) and BlockStmt for nesting.  Every other node kind is *)
(* visited by ast.Inspect without any effect and is left out.              *)
(*                                                                         *)
(* A node is a record                                                      *)
(*   kind    : the go/ast node type                                        *)
(*   tok     : AssignStmt.Tok / RangeStmt.Tok ("DEFINE" or "ASSIGN");      *)
(*             for a DeferStmt, "FUN" when Call.Fun is the function        *)
(*             literal and "ARG" when the literal is an argument           *)
(*   ids     : AssignStmt.Lhs, ValueSpec.Names, RangeStmt.Key/Value,       *)
(*             ReturnStmt.Results                                          *)
(*   results : Type.Results.List of a FuncDecl / FuncLit                   *)
(*   hasBody : FALSE for a FuncDecl without a body                         *)
(*   kids    : the child nodes, in source order                            *)
(* An expression is [ident, name, decl]: decl is the types.Object the      *)
(* identifier resolves to, given as the nesting depth of the function      *)
(* whose result list declares it, or Local for any other binding.          *)
(***************************************************************************)
EXTENDS Integers, Sequences, FiniteSets, TLC

\* Longest function body (statements) and longest result list (fields).
MaxStmts == 2
MaxFields == 2

Local == -1

Other == [ident |-> FALSE, name |-> "", decl |-> Local]
Ident(nm, d) == [ident |-> TRUE, name |-> nm, decl |-> d]

Node(kind, tok, ids, results, kids) ==
    [kind |-> kind, tok |-> tok, ids |-> ids, results |-> results,
     hasBody |-> TRUE, kids |-> kids]

Field(names, type) == [names |-> names, type |-> type]

Block(kids) == Node("BlockStmt", "", <<>>, <<>>, kids)
Return(exprs) == Node("ReturnStmt", "", exprs, <<>>, <<>>)
Assign(tok, lhs) == Node("AssignStmt", tok, lhs, <<>>, <<>>)
ValueSpec(names) == Node("ValueSpec", "", names, <<>>, <<>>)
Range(tok, keyvalue, body) == Node("RangeStmt", tok, keyvalue, <<>>, <<Block(body)>>)
ForInit(init, body) == Node("ForStmt", "", <<>>, <<>>, <<init, Block(body)>>)
FuncLit(results, body) == Node("FuncLit", "", <<>>, results, body)
Defer(tok, lit) == Node("DeferStmt", tok, <<>>, <<>>, <<lit>>)
FuncDecl(results, body) == Node("FuncDecl", "", <<>>, results, body)
FuncDeclNoBody(results) ==
    [kind |-> "FuncDecl", tok |-> "", ids |-> <<>>, results |-> results,
     hasBody |-> FALSE, kids |-> <<>>]

IsFunc(node) == node.kind \in {"FuncDecl", "FuncLit"}

(***************************************************************************)
(* Positions.  token.Pos is modelled by the place in the tree: the path of *)
(* child indices from the root, then the field of the result list and the  *)
(* identifier inside the node (0, 0 for the node itself).                  *)
(***************************************************************************)
Pos(path, fld, id) == [path |-> path, fld |-> fld, id |-> id]
NodePos(path) == Pos(path, 0, 0)

(***************************************************************************)
(* ast.Inspect with a callback that always returns true: every node of the *)
(* subtree, depth first, in source order.  depth counts the enclosing      *)
(* functions.                                                              *)
(***************************************************************************)
RECURSIVE Walk(_, _, _)
Walk(node, path, depth) ==
    LET inner == IF IsFunc(node) THEN depth + 1 ELSE depth
        sub[j \in 0..Len(node.kids)] ==
            IF j = 0 THEN <<>>
            ELSE sub[j - 1] \o Walk(node.kids[j], Append(path, j), inner)
    IN  <<[n |-> node, p |-> path, depth |-> depth]>> \o sub[Len(node.kids)]

\* The nodes ast.Inspect(body, ...) visits for the function at entry e.
BodyWalk(e) == Tail(Walk(e.n, e.p, e.depth))

\* inspector.Preorder with nodeFilter {FuncDecl, FuncLit}.
Units(root) == SelectSeq(Walk(root, <<>>, 0), LAMBDA e : IsFunc(e.n))


(***************************************************************************)
(* The diagnostics of pass.Reportf: a position and a message.  The message *)
(* is kept as its template (kind), its %q argument (arg) and, for the      *)
(* shadowing messages, the construct the message names (by).               *)
(***************************************************************************)
Diag(kind, arg, by, pos) == [kind |-> kind, arg |-> arg, by |-> by, pos |-> pos]

\* types.Info.ObjectOf
ObjectOf(id) == [name |-> id.name, decl |-> id.decl]

\* The object a result name of the function at entry e is bound to.
ResultObject(e, nm) == [name |-> nm, decl |-> e.depth]

\* Concatenation of f[1] .. f[n].
Flatten(f, n) ==
    LET acc[j \in 0..n] == IF j = 0 THEN <<>> ELSE acc[j - 1] \o f[j]
    IN  acc[n]

\* findVariableAssignment looking at short declarations only (a.Tok tested
\* against token.DEFINE): an assignment with = is not found.
findVariableAssignment_DefineOnly(fn, variable) ==
    \E j \in 1..Len(BodyWalk(fn)) :
        LET a == BodyWalk(fn)[j].n
        IN  /\ a.kind = "AssignStmt"
            /\ a.tok = "DEFINE"
            /\ \E l \in 1..Len(a.ids) :
                   a.ids[l].ident /\ ObjectOf(a.ids[l]) = variable

(***************************************************************************)
(* findVariableAssignment: some AssignStmt below the literal's body has an *)
(* identifier on its left-hand side that resolves to the variable.  The    *)
(* walk stops at the first one; its result is whether one exists.          *)
(***************************************************************************)
findVariableAssignment(fn, variable) ==
    \E j \in 1..Len(BodyWalk(fn)) :
        LET a == BodyWalk(fn)[j].n
        IN  /\ a.kind = "AssignStmt"
            /\ \E l \in 1..Len(a.ids) :
                   a.ids[l].ident /\ ObjectOf(a.ids[l]) = variable

\* The entry of the function literal a DeferStmt calls (d.Call.Fun).
DeferredLit(d) == [n |-> d.n.kids[1], p |-> Append(d.p, 1), depth |-> d.depth]

\* findDeferWithVariableAssignment ranging over body.List instead of walking
\* the body: a defer statement below an inner block or literal is not seen.
findDeferWithVariableAssignment_DirectOnly(e, variable) ==
    \E j \in 1..Len(BodyWalk(e)) :
        LET d == BodyWalk(e)[j]
        IN  /\ Len(d.p) = Len(e.p) + 1
            /\ d.n.kind = "DeferStmt"
            /\ d.n.tok = "FUN"
            /\ findVariableAssignment(DeferredLit(d), variable)

(***************************************************************************)
(* findDeferWithVariableAssignment: some DeferStmt below the body calls a  *)
(* function literal whose body assigns the variable.                       *)
(***************************************************************************)
findDeferWithVariableAssignment(e, variable) ==
    \E j \in 1..Len(BodyWalk(e)) :
        LET d == BodyWalk(e)[j]
        IN  /\ d.n.kind = "DeferStmt"
            /\ d.n.tok = "FUN"
            /\ findVariableAssignment(DeferredLit(d), variable)

\* Exempt without the test of the flag.
Exempt_IgnoresFlag(flag, e, fld, nm) ==
    /\ fld.type = "error"
    /\ findDeferWithVariableAssignment(e, ResultObject(e, nm))

\* Exempt only when no statement of the function itself assigns the variable.
Exempt_Exclusive(flag, e, fld, nm) ==
    /\ ~flag
    /\ fld.type = "error"
    /\ findDeferWithVariableAssignment(e, ResultObject(e, nm))
    /\ ~\E j \in 1..Len(BodyWalk(e)) :
           LET a == BodyWalk(e)[j]
           IN  /\ a.depth = e.depth + 1
               /\ a.n.kind = "AssignStmt"
               /\ \E l \in 1..Len(a.n.ids) :
                      a.n.ids[l].ident /\ ObjectOf(a.n.ids[l]) = ResultObject(e, nm)

\* run, lines 91-93: the result name is left out of namedReturnNames.
Exempt(flag, e, fld, nm) ==
    /\ ~flag
    /\ fld.type = "error"
    /\ findDeferWithVariableAssignment(e, ResultObject(e, nm))

\* FieldReports that stays silent for an unnamed result of type error.
FieldReports_UnnamedErrorSilent(e, fld) ==
    IF Len(fld.names) = 0
    THEN IF fld.type = "error" THEN <<>>
         ELSE <<Diag("unnamed-return", fld.type, "", NodePos(e.p))>>
    ELSE Flatten([j \in 1..Len(fld.names) |->
                     IF fld.names[j] = "_"
                     THEN <<Diag("placeholder-return-name", fld.type, "", NodePos(e.p))>>
                     ELSE <<>>],
                 Len(fld.names))

\* FieldReports that skips a placeholder name without reporting it.
FieldReports_PlaceholderSilent(e, fld) ==
    IF Len(fld.names) = 0
    THEN <<Diag("unnamed-return", fld.type, "", NodePos(e.p))>>
    ELSE <<>>

(***************************************************************************)
(* run, lines 75-101, for one entry p of the result list.                  *)
(***************************************************************************)
FieldReports(e, fld) ==
    IF Len(fld.names) = 0
    THEN <<Diag("unnamed-return", fld.type, "", NodePos(e.p))>>
    ELSE Flatten([j \in 1..Len(fld.names) |->
                     IF fld.names[j] = "_"
                     THEN <<Diag("placeholder-return-name", fld.type, "", NodePos(e.p))>>
                     ELSE <<>>],
                 Len(fld.names))

FieldNames(flag, e, fld) ==
    SelectSeq(fld.names, LAMBDA nm : nm # "_" /\ ~Exempt(flag, e, fld, nm))

\* usedNames looking at the first result expression only.
usedNames_FirstOnly(ret, namedReturnNames) ==
    {namedReturnNames[m] : m \in
        {m \in 1..Len(namedReturnNames) :
            ret.ids[1].ident /\ ret.ids[1].name = namedReturnNames[m]}}

(***************************************************************************)
(* checkNamedReturnUsage, the callback on one node.                        *)
(***************************************************************************)
usedNames(ret, namedReturnNames) ==
    {namedReturnNames[m] : m \in
        {m \in 1..Len(namedReturnNames) :
            \E r \in 1..Len(ret.ids) :
                ret.ids[r].ident /\ ret.ids[r].name = namedReturnNames[m]}}

\* UsageReports without the test for a bare return (lines 118-121).
UsageReports_NoBareTest(v, namedReturnNames, funcPos) ==
    IF v.n.kind = "ReturnStmt"
    THEN Flatten([m \in 1..Len(namedReturnNames) |->
                     IF namedReturnNames[m] \notin usedNames(v.n, namedReturnNames)
                     THEN <<Diag("return-mismatch", namedReturnNames[m], "", funcPos)>>
                     ELSE <<>>],
                 Len(namedReturnNames))
    ELSE <<>>

UsageReports(v, namedReturnNames, funcPos) ==
    IF v.n.kind = "ReturnStmt" /\ Len(v.n.ids) # 0
    THEN Flatten([m \in 1..Len(namedReturnNames) |->
                     IF namedReturnNames[m] \notin usedNames(v.n, namedReturnNames)
                     THEN <<Diag("return-mismatch", namedReturnNames[m], "", funcPos)>>
                     ELSE <<>>],
                 Len(namedReturnNames))
    ELSE <<>>

(***************************************************************************)
(* checkNamedReturnShadowing, the callback on one node.                    *)
(***************************************************************************)
\* One identifier against every tracked name.
IdentMatches(id, pos, by, namedReturnNames) ==
    IF id.ident
    THEN Flatten([m \in 1..Len(namedReturnNames) |->
                     IF id.name = namedReturnNames[m]
                     THEN <<Diag("shadowed-return", namedReturnNames[m], by, pos)>>
                     ELSE <<>>],
                 Len(namedReturnNames))
    ELSE <<>>

\* Every identifier of ids, in order; path is the node that holds them.
IdentsMatch(ids, path, by, namedReturnNames) ==
    Flatten([l \in 1..Len(ids) |->
                IdentMatches(ids[l], Pos(path, 0, l), by, namedReturnNames)],
            Len(ids))

HasDefineInit(f) ==
    /\ Len(f.kids) = 2
    /\ f.kids[1].kind = "AssignStmt"
    /\ f.kids[1].tok = "DEFINE"

ShadowReports(v, namedReturnNames) ==
    CASE v.n.kind = "AssignStmt" /\ v.n.tok = "DEFINE" ->
            IdentsMatch(v.n.ids, v.p, "local variable declaration", namedReturnNames)
      [] v.n.kind = "ValueSpec" ->
            IdentsMatch(v.n.ids, v.p, "local variable declaration", namedReturnNames)
      [] v.n.kind = "RangeStmt" ->
            IdentsMatch(v.n.ids, v.p, "range loop variable", namedReturnNames)
      [] v.n.kind = "ForStmt" /\ HasDefineInit(v.n) ->
            IdentsMatch(v.n.kids[1].ids, Append(v.p, 1), "for loop variable",
                        namedReturnNames)
      [] OTHER -> <<>>


(***************************************************************************)
(* The compilation units analysed: one function declaration each, with     *)
(* result lists of at most MaxFields fields and bodies of at most MaxStmts *)
(* statements taken, in order, from StmtMenu.  They are well-typed Go: a   *)
(* result list is all unnamed or all named, names are not repeated, an     *)
(* explicit return has one expression per result, an                       *)
(* identifier returned at a position has that position's type, and a       *)
(* redeclaration of a result name sits in a scope of its own.              *)
(***************************************************************************)
UnnamedFields == {Field(<<>>, "int"), Field(<<>>, "error")}
NamedFields ==
    {Field(<<"result">>, "int"), Field(<<"err">>, "error"),
     Field(<<"err">>, "MyError"), Field(<<"_">>, "int"),
     Field(<<"result", "err">>, "error")}

\* The declared results, one entry per value.
ResultVars(sig) ==
    Flatten([i \in 1..Len(sig) |->
                IF Len(sig[i].names) = 0
                THEN <<[name |-> "", type |-> sig[i].type]>>
                ELSE [j \in 1..Len(sig[i].names) |->
                         [name |-> sig[i].names[j], type |-> sig[i].type]]],
            Len(sig))

NoRepeatedName(sig) ==
    \A a, b \in 1..Len(ResultVars(sig)) :
        (a # b /\ ResultVars(sig)[a].name = ResultVars(sig)[b].name)
            => ResultVars(sig)[a].name \in {"", "_"}

SeqsUpTo(S, n) == UNION {[1..m -> S] : m \in 0..n}

IsNamedSig(sig) == \A f \in 1..Len(sig) : Len(sig[f].names) > 0
IsUnnamedSig(sig) == \A f \in 1..Len(sig) : Len(sig[f].names) = 0

Sigs ==
    {sig \in SeqsUpTo(UnnamedFields \cup NamedFields, MaxFields) :
        (IsNamedSig(sig) \/ IsUnnamedSig(sig)) /\ NoRepeatedName(sig)}

\* The expressions a well-typed return may hold at position j.
ReturnOptions(sig, j) ==
    <<Other>> \o
    [x \in 1..Len(SelectSeq(ResultVars(sig),
                     LAMBDA v : v.name \notin {"", "_"}
                                /\ v.type = ResultVars(sig)[j].type)) |->
        Ident(SelectSeq(ResultVars(sig),
                  LAMBDA v : v.name \notin {"", "_"}
                             /\ v.type = ResultVars(sig)[j].type)[x].name, 0)]

RECURSIVE ExplicitReturns(_, _)
\* Every choice of expressions for positions j .. n, as a sequence.
ExplicitReturns(sig, j) ==
    IF j > Len(ResultVars(sig)) THEN <<<<>>>>
    ELSE LET rest == ExplicitReturns(sig, j + 1)
             opts == ReturnOptions(sig, j)
         IN  Flatten([o \in 1..Len(opts) |->
                         [r \in 1..Len(rest) |-> <<opts[o]>> \o rest[r]]],
                     Len(opts))

AllOther(n) == [j \in 1..n |-> Other]

ReturnMenu(sig) ==
    LET n == Len(ResultVars(sig))
        explicit == IF n = 0 THEN <<>> ELSE ExplicitReturns(sig, 1)
    IN  (IF n = 0 \/ IsNamedSig(sig) THEN <<Return(<<>>)>> ELSE <<>>)
        \o [x \in 1..Len(explicit) |-> Return(explicit[x])]
        \o (IF n >= 1 THEN <<Block(<<Return(AllOther(n))>>)>> ELSE <<>>)

\* The declaration an identifier of the root's body named nm resolves to.
DeclOf(sig, nm) ==
    IF \E a \in 1..Len(ResultVars(sig)) : ResultVars(sig)[a].name = nm
    THEN 0 ELSE Local

AssignErr(sig) == Assign("ASSIGN", <<Ident("err", DeclOf(sig, "err"))>>)
DeferAssignErr(sig) == Defer("FUN", FuncLit(<<>>, <<AssignErr(sig)>>))

DeferMenu(sig) ==
    << AssignErr(sig),
       DeferAssignErr(sig),
       Defer("FUN", FuncLit(<<>>, <<Assign("DEFINE", <<Ident("err", Local)>>)>>)),
       Defer("ARG", FuncLit(<<>>, <<AssignErr(sig)>>)),
       Block(<<DeferAssignErr(sig)>>),
       FuncLit(<<>>, <<DeferAssignErr(sig)>>) >>

ShadowMenu ==
    << Block(<<Assign("DEFINE", <<Ident("result", Local)>>)>>),
       Block(<<ValueSpec(<<Ident("result", Local)>>)>>),
       Range("DEFINE", <<Ident("_", Local), Ident("result", Local)>>, <<>>),
       ForInit(Assign("DEFINE", <<Ident("result", Local)>>), <<>>) >>

ClosureMenu ==
    << FuncLit(<<Field(<<"n">>, "int")>>, <<Return(<<Ident("n", 1)>>)>>),
       FuncLit(<<Field(<<>>, "int")>>, <<Return(<<Other>>)>>) >>

StmtMenu(sig) == DeferMenu(sig) \o ShadowMenu \o ClosureMenu \o ReturnMenu(sig)

Increasing(s) == \A a, b \in 1..Len(s) : a < b => s[a] < s[b]

\* The statements picked for a body: increasing places of a menu of m.
Picks(m) == {s \in SeqsUpTo(1..m, MaxStmts) : Increasing(s)}

Body(menu, s) == [j \in 1..Len(s) |-> menu[s[j]]]

\* The file is one of the declarations over sig: with a body, or without.
IsFileOver(f, sig) ==
    LET menu == StmtMenu(sig)
    IN  \/ f = FuncDeclNoBody(sig)
        \/ \E s \in Picks(Len(menu)) : f = FuncDecl(sig, Body(menu, s))

(***************************************************************************)
(* The run of the analyzer.                                                *)
(*   file               the compilation unit (its one FuncDecl)            *)
(*   reportErrorInDefer the flag, read once at line 32                     *)
(*   pc                 where run is: "next" between two calls of the      *)
(*                      Preorder callback, "classify" in the loop over the *)
(*                      result list, "usage" / "shadow" inside the two     *)
(*                      ast.Inspect walks, "done" after Preorder returned  *)
(*   u                  index in Units(file) of the function in hand       *)
(*   i                  index of the next entry of resultsList             *)
(*   k                  index of the next node of the walk                 *)
(*   namedReturnNames   as in run                                          *)
(*   diags              what pass.Reportf has received, in order           *)
(*   base               Len(diags) when the callback was entered           *)
(*   walk               the nodes ast.Inspect visits below funcBody        *)
(***************************************************************************)
VARIABLES file, reportErrorInDefer, pc, u, i, k, namedReturnNames, diags, base, walk

vars == <<file, reportErrorInDefer, pc, u, i, k, namedReturnNames, diags, base, walk>>

Init ==
    /\ \E sig \in Sigs : IsFileOver(file, sig)
    /\ reportErrorInDefer \in BOOLEAN
    /\ pc = "next"
    /\ u = 1
    /\ i = 1
    /\ k = 1
    /\ namedReturnNames = <<>>
    /\ diags = <<>>
    /\ base = 0
    /\ walk = <<>>

unit == Units(file)[u]
funcResults == unit.n.results
funcPos == NodePos(unit.p)

\* Lines 61-69: a function without a body or without results is left alone.
VisitSkip ==
    /\ pc = "next"
    /\ u <= Len(Units(file))
    /\ LET n == unit.n IN ~(n.hasBody /\ Len(n.results) # 0)
    /\ u' = u + 1
    /\ base' = Len(diags)
    /\ namedReturnNames' = <<>>
    /\ UNCHANGED <<walk, file, reportErrorInDefer, pc, i, k, diags>>

\* Lines 46-74: the callback is entered for a function with results and body.
VisitFunc ==
    /\ pc = "next"
    /\ u <= Len(Units(file))
    /\ LET n == unit.n IN n.hasBody /\ Len(n.results) # 0
    /\ pc' = "classify"
    /\ i' = 1
    /\ namedReturnNames' = <<>>
    /\ base' = Len(diags)
    /\ UNCHANGED <<walk, file, reportErrorInDefer, u, k, diags>>

\* Lines 75-101: one iteration of the loop over resultsList.
ClassifyField ==
    /\ pc = "classify"
    /\ LET e == unit
       IN  /\ i <= Len(e.n.results)
           /\ diags' = diags \o FieldReports(e, e.n.results[i])
           /\ namedReturnNames' =
                  namedReturnNames
                      \o FieldNames(reportErrorInDefer, e, e.n.results[i])
    /\ i' = i + 1
    /\ UNCHANGED <<walk, file, reportErrorInDefer, pc, u, k, base>>

\* Lines 103-107: the two checks run only when a name is tracked.
StartChecks ==
    /\ pc = "classify"
    /\ i > Len(funcResults)
    /\ IF Len(namedReturnNames) > 0
       THEN pc' = "usage" /\ u' = u /\ walk' = BodyWalk(unit)
       ELSE pc' = "next" /\ u' = u + 1 /\ walk' = <<>>
    /\ k' = 1
    /\ UNCHANGED <<file, reportErrorInDefer, i, namedReturnNames, diags, base>>

\* checkNamedReturnUsage: the callback of ast.Inspect on the next node.
UsageVisit ==
    /\ pc = "usage"
    /\ k <= Len(walk)
    /\ diags' = diags \o UsageReports(walk[k], namedReturnNames, funcPos)
    /\ k' = k + 1
    /\ UNCHANGED <<walk, file, reportErrorInDefer, pc, u, i, namedReturnNames, base>>

\* checkNamedReturnUsage returns; checkNamedReturnShadowing starts.
UsageDone ==
    /\ pc = "usage"
    /\ k > Len(walk)
    /\ pc' = "shadow"
    /\ k' = 1
    /\ UNCHANGED <<walk, file, reportErrorInDefer, u, i, namedReturnNames, diags, base>>

\* checkNamedReturnShadowing: the callback of ast.Inspect on the next node.
ShadowVisit ==
    /\ pc = "shadow"
    /\ k <= Len(walk)
    /\ diags' = diags \o ShadowReports(walk[k], namedReturnNames)
    /\ k' = k + 1
    /\ UNCHANGED <<walk, file, reportErrorInDefer, pc, u, i, namedReturnNames, base>>

\* checkNamedReturnShadowing returns, and with it the callback.
ShadowDone ==
    /\ pc = "shadow"
    /\ k > Len(walk)
    /\ pc' = "next"
    /\ u' = u + 1
    /\ k' = 1
    /\ UNCHANGED <<walk, file, reportErrorInDefer, i, namedReturnNames, diags, base>>

\* Line 110: Preorder has visited every function.
Finish ==
    /\ pc = "next"
    /\ u > Len(Units(file))
    /\ pc' = "done"
    /\ UNCHANGED <<walk, file, reportErrorInDefer, u, i, k, namedReturnNames, diags, base>>

Next ==
    \/ VisitSkip
    \/ VisitFunc
    \/ ClassifyField
    \/ StartChecks
    \/ UsageVisit
    \/ UsageDone
    \/ ShadowVisit
    \/ ShadowDone
    \/ Finish

Spec == Init /\ [][Next]_vars


(***************************************************************************)
(* What the properties speak about.  None of these is used by the actions. *)
(***************************************************************************)
\* The callback has returned for function u - 1; its reports are UnitDiags.
Finished == pc \in {"next", "done"} /\ u > 1
LastUnit == Units(file)[u - 1]
UnitDiags == SubSeq(diags, base + 1, Len(diags))

\* The result list is complete: the loop of lines 75-101 has ended.
Classified == pc = "classify" /\ i > Len(funcResults)

OfKind(ds, kind) == SelectSeq(ds, LAMBDA d : d.kind = kind)
About(ds, nm) ==
    SelectSeq(ds, LAMBDA d : d.kind \in {"return-mismatch", "shadowed-return"}
                             /\ d.arg = nm)

PathPrefix(p, q) == Len(p) <= Len(q) /\ SubSeq(q, 1, Len(p)) = p

NodeSet(e) == {BodyWalk(e)[j] : j \in 1..Len(BodyWalk(e))}

\* The nodes of the function itself: not those inside a nested literal.
OwnNodes(e) == {v \in NodeSet(e) : v.depth = e.depth + 1}

\* The bodies of the function literals that a defer statement calls.
DeferredClosures(e) ==
    {Append(v.p, 1) : v \in {v \in NodeSet(e) :
                                v.n.kind = "DeferStmt" /\ v.n.tok = "FUN"}}

\* Those whose defer statement is a statement of the body block itself.
DirectDeferredClosures(e) == {c \in DeferredClosures(e) : Len(c) = Len(e.p) + 2}

\* Every use of the result variable nm of e: <<node, place in ids>>.
References(e, nm) ==
    UNION {{<<v, l>> : l \in {l \in 1..Len(v.n.ids) :
                                /\ v.n.ids[l].ident
                                /\ v.n.ids[l].name = nm
                                /\ v.n.ids[l].decl = e.depth}} : v \in NodeSet(e)}

Assignments(e, nm) == {r[1].p : r \in {r \in References(e, nm) :
                                          r[1].n.kind = "AssignStmt"}}

AssignedIn(e, nm, closures) ==
    \E a \in Assignments(e, nm) : \E c \in closures : PathPrefix(c, a)

AssignedOutside(e, nm, closures) ==
    \E a \in Assignments(e, nm) : \A c \in closures : ~PathPrefix(c, a)

OnlyAssignedInDeferredClosure(e, nm) ==
    /\ References(e, nm) # {}
    /\ \A r \in References(e, nm) :
           /\ r[1].n.kind = "AssignStmt"
           /\ \E c \in DeferredClosures(e) : PathPrefix(c, r[1].p)

\* The result names of e with the given type that are not the placeholder.
TypedNames(e, type) ==
    {v.name : v \in {v \in {ResultVars(e.n.results)[j] :
                               j \in 1..Len(ResultVars(e.n.results))} :
                        v.type = type /\ v.name \notin {"", "_"}}}

ProperNames(e) ==
    {ResultVars(e.n.results)[j].name : j \in 1..Len(ResultVars(e.n.results))}
        \ {"", "_"}

Tracked == {namedReturnNames[j] : j \in 1..Len(namedReturnNames)}

IsExplicitReturn(v) == v.n.kind = "ReturnStmt" /\ Len(v.n.ids) > 0
IsBareReturn(v) == v.n.kind = "ReturnStmt" /\ Len(v.n.ids) = 0

Lists(v, nm) == \E r \in 1..Len(v.n.ids) : v.n.ids[r].ident /\ v.n.ids[r].name = nm


Unnamed(e) == {f \in 1..Len(e.n.results) : Len(e.n.results[f].names) = 0}

\* The placeholder names of the result list: <<field, place in the field>>.
Placeholders(e) ==
    UNION {{<<f, j>> : j \in {j \in 1..Len(e.n.results[f].names) :
                                 e.n.results[f].names[j] = "_"}} :
           f \in 1..Len(e.n.results)}

(***************************************************************************)
(* C1, as stated: every function with at least one unnamed result gets     *)
(* exactly one unnamed-return diagnostic per unnamed result entry.         *)
(* A declaration without a body (lines 61-64) gets none.                   *)
(***************************************************************************)
C1_AsStated ==
    (Finished /\ Unnamed(LastUnit) # {})
        => Len(OfKind(UnitDiags, "unnamed-return")) = Cardinality(Unnamed(LastUnit))

(***************************************************************************)
(* C1, amended: every function that has a body and at least one unnamed    *)
(* result gets exactly one unnamed-return diagnostic per unnamed result    *)
(* entry, whatever the body holds.                                         *)
(***************************************************************************)
C1_UnnamedPerEntry ==
    (Finished /\ LastUnit.n.hasBody /\ Unnamed(LastUnit) # {})
        => Len(OfKind(UnitDiags, "unnamed-return")) = Cardinality(Unnamed(LastUnit))

\* C1: a function with a body of two statements and two unnamed results
\* has been classified and has its two reports.
C1_Witness ==
    /\ Finished
    /\ LastUnit.n.hasBody
    /\ Len(LastUnit.n.kids) >= 2
    /\ Cardinality(Unnamed(LastUnit)) = 2
    /\ Len(OfKind(UnitDiags, "unnamed-return")) = 2

AllNamed(e) == \A f \in 1..Len(e.n.results) : Len(e.n.results[f].names) > 0

ListsExactlyTheNames(e, v) ==
    /\ Len(v.n.ids) = Len(ResultVars(e.n.results))
    /\ \A j \in 1..Len(ResultVars(e.n.results)) : Lists(v, ResultVars(e.n.results)[j].name)

(***************************************************************************)
(* C2, as stated, for functions that hold no function literal (so that the *)
(* walk into nested literals, C9, plays no part): a function whose results *)
(* are all named, none with the placeholder, and whose explicit return     *)
(* statements each list exactly the result names, in some order, gets no   *)
(* diagnostic.                                                             *)
(***************************************************************************)
C2_AsStated ==
    (/\ Finished
     /\ AllNamed(LastUnit)
     /\ Placeholders(LastUnit) = {}
     /\ \A v \in NodeSet(LastUnit) :
            /\ v.n.kind # "FuncLit"
            /\ IsExplicitReturn(v) => ListsExactlyTheNames(LastUnit, v))
        => UnitDiags = <<>>

Redeclares(v, names) ==
    /\ \/ v.n.kind = "AssignStmt" /\ v.n.tok = "DEFINE"
       \/ v.n.kind = "ValueSpec"
       \/ v.n.kind = "RangeStmt"
    /\ \E l \in 1..Len(v.n.ids) : v.n.ids[l].ident /\ v.n.ids[l].name \in names

C2_Premise(e) ==
    /\ AllNamed(e)
    /\ Placeholders(e) = {}
    /\ \A v \in NodeSet(e) :
           /\ IsExplicitReturn(v) => \A nm \in ProperNames(e) : Lists(v, nm)
           /\ ~Redeclares(v, ProperNames(e))

(***************************************************************************)
(* C2, amended: a function gets no diagnostic when every result is named   *)
(* and none with the placeholder, every explicit return statement below    *)
(* its body (those of nested function literals are walked too, see C9)     *)
(* lists every result name, and no short declaration, var declaration or   *)
(* range clause below its body has a result name on its left-hand side.    *)
(***************************************************************************)
C2_NoDiagnostics == (Finished /\ C2_Premise(LastUnit)) => UnitDiags = <<>>

\* C2: the declared function has two named results and two explicit
\* returns that list both, nothing shadows them, and nothing was reported.
C2_Witness ==
    /\ Finished
    /\ u = 2
    /\ Cardinality(ProperNames(LastUnit)) = 2
    /\ C2_Premise(LastUnit)
    /\ Cardinality({v \in OwnNodes(LastUnit) : IsExplicitReturn(v)}) = 2
    /\ UnitDiags = <<>>


\* The explicit return statements of the function itself that leave nm out.
Omitting(e, nm) == {v \in OwnNodes(e) : IsExplicitReturn(v) /\ ~Lists(v, nm)}

(***************************************************************************)
(* C3: with the flag off, a function with a named error-typed result whose *)
(* only references are assignments inside deferred closures gets no        *)
(* diagnostic about that result, although no return statement names it.    *)
(***************************************************************************)
C3_DeferredErrorNotReported ==
    (Finished /\ ~reportErrorInDefer)
        => \A nm \in TypedNames(LastUnit, "error") :
               OnlyAssignedInDeferredClosure(LastUnit, nm)
                   => About(UnitDiags, nm) = <<>>

\* C3: flag off, (result, err) with err assigned only in a deferred closure
\* and an explicit return without err: the function is done, err unreported.
C3_Witness ==
    /\ Finished
    /\ ~reportErrorInDefer
    /\ "err" \in TypedNames(LastUnit, "error")
    /\ "result" \in ProperNames(LastUnit)
    /\ OnlyAssignedInDeferredClosure(LastUnit, "err")
    /\ Omitting(LastUnit, "err") # {}
    /\ About(UnitDiags, "err") = <<>>

MismatchesOf(e, ds, nm) ==
    SelectSeq(ds, LAMBDA d : d = Diag("return-mismatch", nm, "", NodePos(e.p)))

(***************************************************************************)
(* C4: with the flag on no result name is exempted, and a function with a  *)
(* named error-typed result assigned only inside deferred closures gets a  *)
(* return-mismatch naming it, at the function, for every explicit return   *)
(* statement of the function that leaves it out.                           *)
(***************************************************************************)
C4_FlagOnReportsDeferredError ==
    /\ (Classified /\ reportErrorInDefer) => Tracked = ProperNames(unit)
    /\ (Finished /\ reportErrorInDefer)
           => \A nm \in TypedNames(LastUnit, "error") :
                  OnlyAssignedInDeferredClosure(LastUnit, nm)
                      => Len(MismatchesOf(LastUnit, UnitDiags, nm))
                             >= Cardinality(Omitting(LastUnit, nm))

\* C4: flag on, err assigned only in a deferred closure, one explicit return
\* without err: the function is done with one return-mismatch for err.
C4_Witness ==
    /\ Finished
    /\ reportErrorInDefer
    /\ "err" \in TypedNames(LastUnit, "error")
    /\ OnlyAssignedInDeferredClosure(LastUnit, "err")
    /\ Cardinality(Omitting(LastUnit, "err")) = 1
    /\ Len(MismatchesOf(LastUnit, UnitDiags, "err")) = 1

(***************************************************************************)
(* C5, as stated: a named error-typed result that is also assigned outside *)
(* any deferred closure is not exempt and stays in the tracked set.        *)
(***************************************************************************)
C5_AsStated ==
    Classified
        => \A nm \in TypedNames(unit, "error") :
               AssignedOutside(unit, nm, DeferredClosures(unit)) => nm \in Tracked

(***************************************************************************)
(* C5, amended: with the flag off, a named error-typed result is exempt    *)
(* exactly when some deferred closure assigns it; an assignment outside    *)
(* the deferred closures changes nothing.  With the flag on it is tracked. *)
(***************************************************************************)
C5_ExemptIffAssignedInDefer ==
    Classified
        => \A nm \in TypedNames(unit, "error") :
               nm \notin Tracked
                   <=> (~reportErrorInDefer
                        /\ AssignedIn(unit, nm, DeferredClosures(unit)))

\* C5: flag off, err assigned both inside a deferred closure and outside:
\* the result list is classified and err is not tracked.
C5_Witness ==
    /\ Classified
    /\ ~reportErrorInDefer
    /\ "err" \in TypedNames(unit, "error")
    /\ AssignedOutside(unit, "err", DeferredClosures(unit))
    /\ AssignedIn(unit, "err", DeferredClosures(unit))
    /\ "err" \notin Tracked

Introduces(v, l) ==
    /\ \/ v.n.kind = "AssignStmt" /\ v.n.tok = "DEFINE"
       \/ v.n.kind = "ValueSpec"
       \/ v.n.kind = "RangeStmt" /\ v.n.tok = "DEFINE"
    /\ v.n.ids[l].ident
    /\ v.n.ids[l].name \in Tracked

ShadowsAt(ds, pos) ==
    SelectSeq(ds, LAMBDA d : d.kind = "shadowed-return" /\ d.pos = pos)

(***************************************************************************)
(* C6: every shadowing construct that introduces a tracked name (a short   *)
(* declaration, also as the initializer of a for loop, a var declaration,  *)
(* a range key or value) gets exactly one shadowed-return diagnostic at    *)
(* the shadowing identifier.                                               *)
(***************************************************************************)
C6_OneReportPerShadow ==
    Finished
        => \A v \in NodeSet(LastUnit) : \A l \in 1..Len(v.n.ids) :
               Introduces(v, l) => Len(ShadowsAt(UnitDiags, Pos(v.p, 0, l))) = 1

(***************************************************************************)
(* C7: the visit of a bare return statement reports nothing, however many  *)
(* names are tracked.                                                      *)
(***************************************************************************)
C7_BareReturnReportsNothing ==
    [][(/\ pc = "usage"
        /\ k <= Len(BodyWalk(unit))
        /\ IsBareReturn(BodyWalk(unit)[k])) => diags' = diags]_vars

\* C7: the usage walk has just visited a bare return with two names tracked
\* and nothing is reported for the function so far.
C7_Witness ==
    /\ pc = "usage"
    /\ k > 1
    /\ IsBareReturn(BodyWalk(unit)[k - 1])
    /\ Len(namedReturnNames) = 2
    /\ Len(diags) = base

PlaceholdersAt(ds, pos) ==
    SelectSeq(ds, LAMBDA d : d.kind = "placeholder-return-name" /\ d.pos = pos)

(***************************************************************************)
(* C8, as stated, for functions that have a body: every placeholder result *)
(* name gets exactly one placeholder-return-name diagnostic positioned at  *)
(* that name.                                                              *)
(***************************************************************************)
C8_AsStated ==
    (Finished /\ LastUnit.n.hasBody)
        => \A ph \in Placeholders(LastUnit) :
               Len(PlaceholdersAt(UnitDiags, Pos(LastUnit.p, ph[1], ph[2]))) = 1

PlaceholderTypes(e) ==
    SelectSeq(ResultVars(e.n.results), LAMBDA v : v.name = "_")

(***************************************************************************)
(* C8, amended: a function that has a body gets, for each placeholder      *)
(* result name, exactly one placeholder-return-name diagnostic, carrying   *)
(* the type of that result and positioned at the function, not at the      *)
(* name.                                                                   *)
(***************************************************************************)
C8_PlaceholderAtFunction ==
    (Finished /\ LastUnit.n.hasBody)
        => OfKind(UnitDiags, "placeholder-return-name")
               = [j \in 1..Len(PlaceholderTypes(LastUnit)) |->
                     Diag("placeholder-return-name", PlaceholderTypes(LastUnit)[j].type,
                          "", NodePos(LastUnit.p))]

\* C8: a function with a body and two placeholder results is done and has
\* two placeholder reports at its own position.
C8_Witness ==
    /\ Finished
    /\ LastUnit.n.hasBody
    /\ Cardinality(Placeholders(LastUnit)) = 2
    /\ Len(PlaceholdersAt(UnitDiags, NodePos(LastUnit.p))) = 2

OwnOmissions(e) ==
    {<<v, nm>> \in OwnNodes(e) \X Tracked : IsExplicitReturn(v) /\ ~Lists(v, nm)}

(***************************************************************************)
(* C9: the return-mismatch diagnostics of a function come from its own     *)
(* explicit return statements, those in inner blocks included, one per     *)
(* tracked name left out, and none from a return statement inside a nested *)
(* function literal.                                                       *)
(***************************************************************************)
C9_OnlyOwnReturns ==
    Finished
        => Len(OfKind(UnitDiags, "return-mismatch")) = Cardinality(OwnOmissions(LastUnit))

(***************************************************************************)
(* C10, as stated: with the flag off, a named error-typed result that no   *)
(* deferred closure directly in the body block assigns is not exempt.      *)
(***************************************************************************)
C10_AsStated ==
    (Classified /\ ~reportErrorInDefer)
        => \A nm \in TypedNames(unit, "error") :
               ~AssignedIn(unit, nm, DirectDeferredClosures(unit)) => nm \in Tracked

NestedDeferredClosures(e) == DeferredClosures(e) \ DirectDeferredClosures(e)

(***************************************************************************)
(* C10, amended: with the flag off, the defer statements at every depth    *)
(* below the body count: an assignment in a deferred closure nested in an  *)
(* inner block or in a nested function literal makes the result exempt.    *)
(***************************************************************************)
C10_NestedDeferExempts ==
    (Classified /\ ~reportErrorInDefer)
        => \A nm \in TypedNames(unit, "error") :
               AssignedIn(unit, nm, NestedDeferredClosures(unit)) => nm \notin Tracked

\* C10: flag off, the only defer statements sit in an inner block and in a
\* nested function literal, both assign err: err is not tracked.
C10_Witness ==
    /\ Classified
    /\ ~reportErrorInDefer
    /\ "err" \in TypedNames(unit, "error")
    /\ DirectDeferredClosures(unit) = {}
    /\ Cardinality(NestedDeferredClosures(unit)) = 2
    /\ AssignedIn(unit, "err", NestedDeferredClosures(unit))
    /\ "err" \notin Tracked

====
